---- MODULE Spec2Model ----
(***************************************************************************)
(* express-hystrix: the middleware that wraps every inbound request into a *)
(* hystrix command.  The model follows hystrixFactory / hystrix /          *)
(* defaultFallback / defaultRunCommand of the newest source variant        *)
(* (src/unnamed/part_001); the hystrixjs command, metrics and circuit      *)
(* breaker it drives are an external dependency and are modelled from      *)
(* their contract (spec section 6, README, the assertions of the tests).   *)
(*                                                                         *)
(* One statistical window is modelled: rolling counters never expire, they *)
(* are only reset when a probe request closes an open circuit.             *)
(***************************************************************************)
EXTENDS Integers, Sequences, FiniteSets, TLC

\* ---------------------------------------------------------------- bounds
\* Number of requests the server receives in one run of the model.
MaxReq == 3
\* Number of requests in flight at once, where requests overlap.
MaxConcurrent == 3

\* ------------------------------------------------------ program constants
\* hystrixjs tuning used when neither configuration layer sets the key.
circuitBreakerRequestVolumeThreshold == 20
circuitBreakerErrorThresholdPercentage == 50

GROUP == "express:hystrix:data"

\* ------------------------------------------------------------ vocabulary
Requests == 1..MaxReq
Paths == {"/", "/other"}
\* Every command identity a request can get: its path or a resolver's name.
Commands == {"/", "/other", "home", "other"}
\* The keys the command, metrics and circuit caches of hystrixjs may hold.
Keys == Commands \cup {GROUP}

\* JavaScript values that are not strings of the program.
Undefined == "undefined"
Throws == "#throws"

\* Error messages.  The first two are hystrixjs's; Boom is what the tests'
\* executor, status resolver and fallback reject with, Reasons are the reasons
\* a status resolver may reject with.
OpenCircuitError == "OpenCircuitError"
CommandTimeOut == "CommandTimeOut"
Boom == "Boom"
Reasons == {Boom, "Bad path"}

Outcomes == {"SUCCESS", "FAILURE", "TIMEOUT", "SHORT_CIRCUITED"}
FallbackOutcomes == {"FALLBACK_SUCCESS", "FALLBACK_FAILURE"}
Kinds == Outcomes \cup FallbackOutcomes

VolumeKey == "circuitBreakerRequestVolumeThreshold"
PercentKey == "circuitBreakerErrorThresholdPercentage"
ForceOpenedKey == "circuitBreakerForceOpened"

VARIABLES
    config,        \* the object hystrixFactory closed over (set up once)
    factoryCalls,  \* how often config.commandExecutorFactory has been called
    pc,            \* per request: where its command execution stands
    path,          \* per request: req.path
    command,       \* per request: the const `command` of hystrix()
    res,           \* per request: the response handle
    latch,         \* per request: Hoek.once flag of handleResponseStatus
    status,        \* per request: the status resolver's promise
    owesNext,      \* per request: a custom executor has yet to call next
    fbVia,         \* per request: how the pending custom fallback was reached
    hist,          \* per request: what the bridge did, in order (history)
    liveConfig,    \* per command: the configuration of the cached command
    counts,        \* per command: rolling counters by outcome kind
    circuitOpen,   \* per command: CircuitBreaker.circuitOpen
    sleepElapsed   \* per command: the sleep window has elapsed since open/test

reqVars == <<pc, path, command, res, latch, status, owesNext, fbVia, hist>>
cmdVars == <<liveConfig, counts, circuitOpen, sleepElapsed>>
vars == <<config, factoryCalls, pc, path, command, res, latch, status, owesNext, fbVia, hist,
          liveConfig, counts, circuitOpen, sleepElapsed>>

\* ------------------------------------------------------- setup-time input
\* The command resolvers a deployment may configure: none, the tests' resolver
\* (a name per path), one that returns nothing for a path, one that throws.
ResolverKinds == {"absent", "byPath", "falsy", "throws"}

commandResolver(kind, p) ==
    CASE kind = "byPath" -> IF p = "/" THEN "home" ELSE "other"
      [] kind = "falsy"  -> IF p = "/" THEN "home" ELSE ""
      [] kind = "throws" -> IF p = "/" THEN "home" ELSE Throws
      [] OTHER           -> Undefined

\* (faulty variant) the keys the target holds already are kept.
ObjectAssignTargetWins(target, layer) ==
    [k \in (DOMAIN target) \cup (DOMAIN layer) |->
        IF k \in DOMAIN target THEN target[k] ELSE layer[k]]

\* Object.assign(target, layer): a sparse layer overwrites the keys it holds.
ObjectAssign(target, layer) ==
    [k \in (DOMAIN target) \cup (DOMAIN layer) |->
        IF k \in DOMAIN layer THEN layer[k] ELSE target[k]]

NoLayer == [k \in {} |-> 0]
VolumeLayer(v) == [k \in {VolumeKey} |-> v]

\* config.hystrix: absent, or a 'default' layer and per-command layers.
\* A layer that is not configured is the empty object (nothing to assign).
\* The second is the tests' configuration (only 'other' is tuned), the third
\* has a default layer and overrides of it.
HystrixConfigs ==
    { [present |-> FALSE, default |-> NoLayer, byCommand |-> [c \in Commands |-> NoLayer]],
      [present |-> TRUE, default |-> NoLayer,
       byCommand |-> [c \in Commands |-> IF c = "other" THEN VolumeLayer(1) ELSE NoLayer]],
      [present |-> TRUE, default |-> VolumeLayer(2),
       byCommand |-> [c \in Commands |-> IF c \in {"other", "/"} THEN VolumeLayer(1)
                                         ELSE NoLayer]] }

\* The executor factories a deployment may configure: none, one that returns
\* an executor (the tests' fixture), one that returns nothing.
FactoryKinds == {"absent", "returnsExecutor", "returnsNothing"}

commandExecutorFactory(c) ==
    IF c.commandExecutorFactory = "returnsExecutor" THEN "factoryExecutor"
    ELSE Undefined

\* The deployments without an executor factory: every combination, except that beside a custom executor a
\* status resolver is always configured (nothing consults it there, so the
\* deployment without one behaves the same).
Configs ==
    { c \in [commandResolver : ResolverKinds,
             commandStatusResolver : BOOLEAN,
             runCommand : {"default", "custom"},
             commandExecutorFactory : {"absent"},
             fallback : {"default", "custom"},
             hystrix : HystrixConfigs] :
        c.runCommand = "custom" => c.commandStatusResolver }

\* The configuration hystrixjs builds a command with when no layer sets a key.
LibraryConfig ==
    [k \in {VolumeKey, PercentKey, ForceOpenedKey} |->
        CASE k = VolumeKey -> circuitBreakerRequestVolumeThreshold
          [] k = PercentKey -> circuitBreakerErrorThresholdPercentage
          [] OTHER -> FALSE]

NoEvents == << >>

\* hystrixFactory has returned (it called the executor factory, if one is
\* configured, once) and nothing is received yet: every command as hystrixjs
\* creates it.
Fresh ==
    /\ factoryCalls = IF config.commandExecutorFactory = "absent" THEN 0 ELSE 1
    /\ pc = [r \in Requests |-> "idle"]
    /\ path = [r \in Requests |-> "/"]
    /\ command = [r \in Requests |-> Undefined]
    /\ res = [r \in Requests |-> [finished |-> FALSE, body |-> "none",
                                  finish |-> FALSE, close |-> FALSE]]
    /\ latch = [r \in Requests |-> FALSE]
    /\ status = [r \in Requests |-> "none"]
    /\ owesNext = [r \in Requests |-> FALSE]
    /\ fbVia = [r \in Requests |-> "none"]
    /\ hist = [r \in Requests |-> NoEvents]
    /\ liveConfig = [c \in Keys |-> LibraryConfig]
    /\ counts = [c \in Keys |-> [k \in Kinds |-> 0]]
    /\ circuitOpen = [c \in Keys |-> FALSE]
    /\ sleepElapsed = [c \in Keys |-> FALSE]

Init == config \in Configs /\ Fresh

\* ------------------------------------------------------------- the bridge
Ev(ev, by, arg) == [ev |-> ev, by |-> by, arg |-> arg, args |-> << >>]
EvArgs(ev, by, arg, args) == [ev |-> ev, by |-> by, arg |-> arg, args |-> args]
Last(s) == s[Len(s)]
Front(s) == SubSeq(s, 1, Len(s) - 1)
Has(h, ev) == \E i \in 1..Len(h) : h[i].ev = ev
Count(h, ev, arg) == Cardinality({i \in 1..Len(h) : h[i].ev = ev /\ h[i].arg = arg})

\* (faulty variant) the resolver is never asked.
ResolveCommandIgnoresResolver(kind, p) == p

\* (faulty variant) an exception of the resolver is caught and the path used.
ResolveCommandCatches(kind, p) ==
    IF kind = "absent" THEN p
    ELSE LET v == commandResolver(kind, p) IN
         IF v = Throws \/ v = "" \/ v = Undefined THEN p ELSE v

\* const command = config.commandResolver && config.commandResolver(req) || req.path
\* (Throws: the resolver's exception leaves hystrix(), nothing catches it).
ResolveCommand(kind, p) ==
    IF kind = "absent" THEN p
    ELSE LET v == commandResolver(kind, p) IN
         IF v = Throws THEN Throws
         ELSE IF v = "" \/ v = Undefined THEN p ELSE v

\* (faulty variant) the arguments swapped: every command is cached under the group.
getOrCreateSwapped(commandKey, commandGroup) == commandGroup

\* commandFactory.getOrCreate(command, GROUP): the cache key is the command.
getOrCreate(commandKey, commandGroup) == commandKey

KeyOf(r) == getOrCreate(command[r], GROUP)

\* (faulty variant) every configured layer is assigned, the command's own last.
MergeConfigEveryLayer(live, hy, c) ==
    IF ~hy.present THEN live
    ELSE ObjectAssign(ObjectAssign(ObjectAssign(ObjectAssign(live, hy.default),
                                                hy.byCommand["/"]),
                                   hy.byCommand["other"]),
                      hy.byCommand[c])

\* (faulty variant) the override of one fixed command is assigned for every command.
MergeConfigSharedOverride(live, hy, c) ==
    IF ~hy.present THEN live
    ELSE ObjectAssign(ObjectAssign(live, hy.default), hy.byCommand["other"])

\* (faulty variant) the two layers assigned in the wrong order: the default layer wins.
MergeConfigDefaultLast(live, hy, c) ==
    IF ~hy.present THEN live
    ELSE ObjectAssign(ObjectAssign(live, hy.byCommand[c]), hy.default)

\* The two Object.assign calls of hystrix(): default layer, then the layer
\* config.hystrix[command].
MergeConfig(live, hy, c) ==
    IF ~hy.present THEN live
    ELSE ObjectAssign(ObjectAssign(live, hy.default), hy.byCommand[c])

\* (faulty variant) a configured executor is ignored.
runCommandAlwaysDefault == "defaultRunCommand"

\* (faulty variant) config.runCommand || defaultRunCommand: no factory.
runCommandIgnoresFactory ==
    IF config.runCommand = "custom" THEN "runCommand" ELSE "defaultRunCommand"

\* let runCommand = config.commandExecutorFactory &&
\*                  config.commandExecutorFactory(config) ||
\*                  config.runCommand || defaultRunCommand
runCommand ==
    IF /\ config.commandExecutorFactory # "absent"
       /\ commandExecutorFactory(config) # Undefined
    THEN commandExecutorFactory(config)
    ELSE IF config.runCommand = "custom" THEN "runCommand"
    ELSE "defaultRunCommand"

\* .execute(command, req, res, next): the arguments hystrixjs hands to the
\* executor, and as an array to the fallback.
ExecuteArgs(c) == <<c, "req", "res", "next">>

\* (faulty variant) args.pop() four times: the arguments arrive reversed.
fallbackPops(err, args) == <<err, args[4], args[3], args[2], args[1]>>

\* The wrapper of a custom fallback, the call it makes:
\* config.fallback(err, args.shift(), args.shift(), args.shift(), args.shift())
fallback(err, args) ==
    <<err, Head(args), Head(Tail(args)), Head(Tail(Tail(args))),
      Head(Tail(Tail(Tail(args))))>>

\* (faulty variant) every error is forwarded to the continuation (the fallback
\* of the earlier source variant).
defaultFallbackForwardsAll(err, args, response) ==
    IF response.finished
    THEN [next |-> FALSE, arg |-> Undefined, settles |-> "reject", reason |-> err]
    ELSE [next |-> TRUE, arg |-> err, settles |-> "resolve", reason |-> Undefined]

\* (faulty variant) the continuation is called, then the promise is rejected.
defaultFallbackRejectsAfterNext(err, args, response) ==
    IF response.finished
    THEN [next |-> FALSE, arg |-> Undefined, settles |-> "reject", reason |-> err]
    ELSE [next |-> TRUE,
          arg |-> IF err = OpenCircuitError THEN err ELSE Undefined,
          settles |-> "reject", reason |-> err]

\* (faulty variant) reject() without the error.
defaultFallbackRejectsBare(err, args, response) ==
    IF response.finished
    THEN [next |-> FALSE, arg |-> Undefined, settles |-> "reject", reason |-> Undefined]
    ELSE [next |-> TRUE,
          arg |-> IF err = OpenCircuitError THEN err ELSE Undefined,
          settles |-> "resolve", reason |-> Undefined]

\* (faulty variant) res.finished is not looked at.
defaultFallbackNoFinishedCheck(err, args, response) ==
    [next |-> TRUE,
     arg |-> IF err = OpenCircuitError THEN err ELSE Undefined,
     settles |-> "resolve", reason |-> Undefined]

\* (faulty variant) the test of the error's kind is inverted: an open-circuit error is
\* dropped, any other error is forwarded.
defaultFallbackInvertedKind(err, args, response) ==
    IF response.finished
    THEN [next |-> FALSE, arg |-> Undefined, settles |-> "reject", reason |-> err]
    ELSE [next |-> TRUE,
          arg |-> IF err = OpenCircuitError THEN Undefined ELSE err,
          settles |-> "resolve", reason |-> Undefined]

\* defaultFallback(err, args): next and res are popped off the argument list.
defaultFallback(err, args, response) ==
    LET next == Last(args)
        resArg == Last(Front(args))
        finished == IF resArg = "res" THEN response.finished ELSE FALSE
    IN  IF finished
        THEN [next |-> FALSE, arg |-> Undefined, settles |-> "reject", reason |-> err]
        ELSE IF next # "next"
        THEN [next |-> FALSE, arg |-> Undefined, settles |-> "reject", reason |-> "TypeError"]
        ELSE [next |-> TRUE,
              arg |-> IF err = OpenCircuitError THEN err ELSE Undefined,
              settles |-> "resolve", reason |-> Undefined]

\* (faulty variant) handleResponseStatus not wrapped in Hoek.once.
handleResponseStatusNotOnce(called, hasResolver) ==
    IF hasResolver THEN "askResolver" ELSE "resolve"

\* (faulty variant) handleResponseStatus without its trailing resolve().
handleResponseStatusNoResolve(called, hasResolver) ==
    IF called THEN "nothing"
    ELSE IF hasResolver THEN "askResolver"
    ELSE "nothing"

\* handleResponseStatus, wrapped in Hoek.once: what one 'finish' or 'close'
\* does to the executor's promise.
handleResponseStatus(called, hasResolver) ==
    IF called THEN "nothing"
    ELSE IF hasResolver THEN "askResolver"
    ELSE "resolve"

\* (faulty variant) one wrapper, made at setup, serves every request.
onceShared(r) == \E q \in Requests : latch[q]

\* Hoek.once(handleResponseStatus), made by each call of defaultRunCommand:
\* has the wrapper of request r been called.
once(r) == latch[r]

\* (faulty variant) only 'finish' is listened to.
lifecycleEventsFinishOnly == {"finish"}

\* res.once('finish', handleResponseStatus); res.once('close', handleResponseStatus)
lifecycleEvents == {"finish", "close"}

\* (faulty variant) .then(reject).catch(resolve)
forwardStatusSwapped(settled) == IF settled = "resolved" THEN "reject" ELSE "resolve"

\* config.commandStatusResolver(req, res).then(resolve).catch(reject)
forwardStatus(settled) == IF settled = "resolved" THEN "resolve" ELSE "reject"

\* (faulty variant) the rejection is handed to the continuation.
skipForwards(err) == <<Ev("next", "skip", err)>>

\* .catch(err => { /* skip it */ }): what the bridge does with the rejection
\* of execute()'s promise (nothing).
skip(err) == << >>

\* ------------------------------------------------- hystrixjs (contract)
HealthTotal(k) ==
    counts[k]["SUCCESS"] + counts[k]["FAILURE"] + counts[k]["TIMEOUT"]
        + counts[k]["SHORT_CIRCUITED"]
HealthErrors(k) ==
    counts[k]["FAILURE"] + counts[k]["TIMEOUT"] + counts[k]["SHORT_CIRCUITED"]

\* CircuitBreaker.isOpen: open already, or the health counts trip it now.
isOpen(k) ==
    \/ circuitOpen[k]
    \/ /\ HealthTotal(k) >= liveConfig[k][VolumeKey]
       /\ HealthErrors(k) * 100 > liveConfig[k][PercentKey] * HealthTotal(k)

\* CircuitBreaker.allowRequest: closed, or open with the sleep window elapsed
\* (one probe request is let through).
allowRequest(k) ==
    IF liveConfig[k][ForceOpenedKey] THEN FALSE
    ELSE ~isOpen(k) \/ (circuitOpen[k] /\ sleepElapsed[k])

\* (faulty variant) the fallback's outcome is marked after an open circuit too.
marksFallbackAlways(kind) == TRUE

\* Only Command.handleFailure (FAILURE, TIMEOUT) marks the outcome of the
\* fallback; the open-circuit branch of Command.execute runs the fallback and
\* marks nothing for it.
marksFallback(kind) == kind # "SHORT_CIRCUITED"

\* Command.handleSuccess: mark SUCCESS; a success while the circuit is open
\* closes it and resets the command's rolling counters.
HandleSuccess(r, evs) ==
    LET k == KeyOf(r) IN
    /\ counts' = IF circuitOpen[k]
                 THEN [counts EXCEPT ![k] = [x \in Kinds |-> 0]]
                 ELSE [counts EXCEPT ![k]["SUCCESS"] = @ + 1]
    /\ circuitOpen' = [circuitOpen EXCEPT ![k] = FALSE]
    /\ sleepElapsed' = [sleepElapsed EXCEPT ![k] = FALSE]
    /\ hist' = [hist EXCEPT ![r] = @ \o evs \o <<Ev("mark", k, "SUCCESS")>>]
    /\ pc' = [pc EXCEPT ![r] = "done"]
    /\ fbVia' = fbVia

\* (faulty variant) the fallback is run first, the outcome marked afterwards.
failureOrderFallbackFirst(marks, fallbackEvents) == fallbackEvents \o marks

\* Both Command.handleFailure and the open-circuit branch mark the outcome
\* first and call the fallback after that.
failureOrder(marks, fallbackEvents) == marks \o fallbackEvents

\* Command.handleFailure (FAILURE, TIMEOUT) and the open-circuit branch of
\* Command.execute (SHORT_CIRCUITED): mark the outcome, then run the fallback.
\* Only handleFailure marks the fallback's own outcome.  A rejection of the
\* fallback rejects execute()'s promise, which the bridge catches.
\* `open` is the circuit flag after the allowRequest check of this step.
HandleFailure(r, kind, err, evs, open) ==
    LET k == KeyOf(r)
        marked == [counts EXCEPT ![k][kind] = @ + 1]
        h1 == hist[r] \o evs
        mark == <<Ev("mark", k, kind)>>
    IN
    /\ circuitOpen' = open
    /\ IF config.fallback = "custom"
       THEN \* fallback(err, command, req, res, next): args.shift() four times
            /\ LET call == fallback(err, ExecuteArgs(command[r])) IN
               hist' = [hist EXCEPT ![r] =
                  h1 \o failureOrder(mark,
                        <<EvArgs("fallback", "custom", Head(call), Tail(call))>>)]
            /\ pc' = [pc EXCEPT ![r] = "fallback"]
            /\ fbVia' = [fbVia EXCEPT ![r] = kind]
            /\ counts' = marked
       ELSE LET f == defaultFallback(err, ExecuteArgs(command[r]), res[r])
                fk == IF f.settles = "resolve" THEN "FALLBACK_SUCCESS"
                      ELSE "FALLBACK_FAILURE"
            IN /\ hist' = [hist EXCEPT ![r] =
                     h1 \o failureOrder(mark,
                              <<EvArgs("fallback", "default", err, ExecuteArgs(command[r]))>>
                              \o (IF f.next THEN <<Ev("next", "defaultFallback", f.arg)>>
                                  ELSE << >>)
                              \o <<Ev(f.settles, "defaultFallback", f.reason)>>)
                        \o (IF marksFallback(kind) THEN <<Ev("mark", k, fk)>>
                            ELSE << >>)
                        \o (IF f.settles = "reject" THEN skip(f.reason)
                            ELSE << >>)]
               /\ pc' = [pc EXCEPT ![r] = "done"]
               /\ fbVia' = fbVia
               /\ counts' = IF marksFallback(kind)
                            THEN [marked EXCEPT ![k][fk] = @ + 1]
                            ELSE marked
    /\ sleepElapsed' = sleepElapsed

\* ---------------------------------------------------------------- actions
\* hystrix(req, res, next), the synchronous body of the middleware: resolve the
\* command, merge the configuration onto the command's, schedule execute().
\* Requests are served one after another, as the tests issue them: a request
\* arrives when the requests before it are gone.
hystrixCall(r, p) ==
    /\ pc[r] = "idle"
    /\ path' = [path EXCEPT ![r] = p]
    /\ LET c == ResolveCommand(config.commandResolver, p) IN
       IF c = Throws
       THEN /\ pc' = [pc EXCEPT ![r] = "threw"]
            /\ UNCHANGED <<command, liveConfig>>
       ELSE /\ pc' = [pc EXCEPT ![r] = "deferred"]
            /\ command' = [command EXCEPT ![r] = c]
            /\ liveConfig' = [liveConfig EXCEPT ![getOrCreate(c, GROUP)] =
                                 MergeConfig(@, config.hystrix, c)]
    /\ UNCHANGED <<config, factoryCalls, res, latch, status, owesNext, fbVia, hist,
                   counts, circuitOpen, sleepElapsed>>

hystrix(r, p) ==
    /\ \A q \in Requests : q < r => pc[q] = "gone"
    /\ hystrixCall(r, p)

\* Command.execute, deferred by hystrixjs: ask the circuit breaker, then either
\* invoke the executor (config.run) or mark SHORT_CIRCUITED and fall back.
\* defaultRunCommand registers handleResponseStatus for 'finish' and 'close'
\* and calls next(); a custom executor calls next() when it chooses to.
execute(r) ==
    /\ pc[r] = "deferred"
    /\ LET k == KeyOf(r)
           open == IF liveConfig[k][ForceOpenedKey] THEN circuitOpen
                   ELSE [circuitOpen EXCEPT ![k] = isOpen(k)]
       IN IF allowRequest(k)
          THEN /\ pc' = [pc EXCEPT ![r] = "running"]
               /\ circuitOpen' = open
               /\ sleepElapsed' = [sleepElapsed EXCEPT ![k] = FALSE]
               /\ IF runCommand = "defaultRunCommand"
                  THEN /\ hist' = [hist EXCEPT ![r] =
                             @ \o <<EvArgs("run", "defaultRunCommand", command[r],
                                           ExecuteArgs(command[r])),
                                    Ev("next", "executor", Undefined)>>]
                       /\ owesNext' = owesNext
                  ELSE /\ hist' = [hist EXCEPT ![r] =
                             @ \o <<EvArgs("run", runCommand, command[r],
                                           ExecuteArgs(command[r]))>>]
                       /\ owesNext' = [owesNext EXCEPT ![r] = TRUE]
               /\ UNCHANGED <<counts, fbVia>>
          ELSE /\ HandleFailure(r, "SHORT_CIRCUITED", OpenCircuitError, << >>, open)
               /\ owesNext' = owesNext
    /\ UNCHANGED <<config, factoryCalls, path, command, res, latch, status, liveConfig>>

\* The downstream chain, once the continuation has invoked it, ends the
\* response: the handlers write 'ok', the error handlers write 'fallback'.
HandlerEnd(r) ==
    /\ ~res[r].finished
    /\ \E i \in 1..Len(hist[r]) :
          /\ hist[r][i].ev = "next"
          /\ res' = [res EXCEPT ![r].finished = TRUE,
                                ![r].body = IF hist[r][i].arg = Undefined
                                            THEN "ok" ELSE "fallback"]
    /\ UNCHANGED <<config, factoryCalls, pc, path, command, latch, status, owesNext, fbVia,
                   hist, cmdVars>>

\* The listener defaultRunCommand registered runs on the event.
Listens(r) == \E i \in 1..Len(hist[r]) :
                 hist[r][i].ev = "run" /\ hist[r][i].by = "defaultRunCommand"

OnSignal(r, event) ==
    LET does == handleResponseStatus(once(r), config.commandStatusResolver) IN
    IF event \notin lifecycleEvents
    THEN UNCHANGED <<latch, status, hist, pc, fbVia, counts, circuitOpen, sleepElapsed>>
    ELSE
    /\ latch' = [latch EXCEPT ![r] = TRUE]
    /\ CASE does = "askResolver" ->
              /\ status' = [status EXCEPT ![r] = "pending"]
              /\ hist' = [hist EXCEPT ![r] = @ \o <<Ev("status", "handleResponseStatus", Undefined)>>]
              /\ UNCHANGED <<pc, fbVia, counts, circuitOpen, sleepElapsed>>
         [] does = "resolve" /\ pc[r] = "running" ->
              /\ HandleSuccess(r, <<Ev("resolve", "handleResponseStatus", Undefined)>>)
              /\ status' = status
         [] OTHER ->
              /\ UNCHANGED <<status, hist, pc, fbVia, counts, circuitOpen, sleepElapsed>>

\* 'finish': the response has been handed over completely.
Finish(r) ==
    /\ res[r].finished /\ ~res[r].finish
    /\ Listens(r)
    /\ OnSignal(r, "finish")
    /\ res' = [res EXCEPT ![r].finish = TRUE]
    /\ UNCHANGED <<config, factoryCalls, path, command, owesNext, liveConfig>>

\* 'close': the connection went away (an abort, or after the response).
Close(r) ==
    /\ ~res[r].close
    /\ Listens(r)
    /\ OnSignal(r, "close")
    /\ res' = [res EXCEPT ![r].close = TRUE]
    /\ UNCHANGED <<config, factoryCalls, path, command, owesNext, liveConfig>>

\* The status resolver's promise settles; handleResponseStatus forwards it to
\* the executor's promise (which a timeout may have settled before).
StatusSettle(r, settled, reason) ==
    /\ status[r] = "pending"
    /\ status' = [status EXCEPT ![r] = settled]
    /\ IF pc[r] # "running"
       THEN UNCHANGED <<pc, fbVia, hist, counts, circuitOpen, sleepElapsed>>
       ELSE IF forwardStatus(settled) = "resolve"
       THEN HandleSuccess(r, <<Ev("resolve", "commandStatusResolver", Undefined)>>)
       ELSE HandleFailure(r, "FAILURE", reason,
                          <<Ev("reject", "commandStatusResolver", reason)>>, circuitOpen)
    /\ UNCHANGED <<config, factoryCalls, path, command, res, latch, owesNext, liveConfig>>

StatusResolves(r) == StatusSettle(r, "resolved", Undefined)
StatusRejects(r) == \E e \in Reasons : StatusSettle(r, "rejected", e)

\* A custom executor calls the continuation, before or after its promise
\* settles.
CustomNext(r) ==
    /\ owesNext[r]
    /\ owesNext' = [owesNext EXCEPT ![r] = FALSE]
    /\ hist' = [hist EXCEPT ![r] = @ \o <<Ev("next", "executor", Undefined)>>]
    /\ UNCHANGED <<config, factoryCalls, pc, path, command, res, latch, status, fbVia, cmdVars>>

\* The promise a custom executor returned settles.
CustomResolves(r) ==
    /\ pc[r] = "running" /\ runCommand # "defaultRunCommand"
    /\ HandleSuccess(r, <<Ev("resolve", "runCommand", Undefined)>>)
    /\ UNCHANGED <<config, factoryCalls, path, command, res, latch, status, owesNext, liveConfig>>

CustomRejects(r) ==
    /\ pc[r] = "running" /\ runCommand # "defaultRunCommand"
    /\ HandleFailure(r, "FAILURE", Boom, <<Ev("reject", "runCommand", Boom)>>, circuitOpen)
    /\ UNCHANGED <<config, factoryCalls, path, command, res, latch, status, owesNext, liveConfig>>

\* The command's timeout elapses before the executor's promise settled.
Timeout(r) ==
    /\ pc[r] = "running"
    /\ HandleFailure(r, "TIMEOUT", CommandTimeOut, << >>, circuitOpen)
    /\ UNCHANGED <<config, factoryCalls, path, command, res, latch, status, owesNext, liveConfig>>

\* The promise of a custom fallback settles; after handleFailure the command
\* marks the fallback's outcome, after an open circuit it does not.
FallbackSettle(r, settles, reason) ==
    /\ pc[r] = "fallback"
    /\ LET k == KeyOf(r)
           fk == IF settles = "resolve" THEN "FALLBACK_SUCCESS" ELSE "FALLBACK_FAILURE"
           counted == marksFallback(fbVia[r])
       IN /\ hist' = [hist EXCEPT ![r] =
                 @ \o <<Ev(settles, "customFallback", reason)>>
                   \o (IF counted THEN <<Ev("mark", k, fk)>> ELSE << >>)
                   \o (IF settles = "reject" THEN skip(reason) ELSE << >>)]
          /\ counts' = IF counted THEN [counts EXCEPT ![k][fk] = @ + 1] ELSE counts
    /\ pc' = [pc EXCEPT ![r] = "done"]
    /\ fbVia' = [fbVia EXCEPT ![r] = "none"]
    /\ UNCHANGED <<config, factoryCalls, path, command, res, latch, status, owesNext,
                   liveConfig, circuitOpen, sleepElapsed>>

FallbackResolves(r) == FallbackSettle(r, "resolve", Undefined)
FallbackRejects(r) == FallbackSettle(r, "reject", Boom)

\* The request is over for the server: its command has settled (or hystrix()
\* threw) and the request, its response and their listeners are dropped.
Retire(r) ==
    /\ pc[r] \in {"done", "threw"}
    /\ pc' = [pc EXCEPT ![r] = "gone"]
    /\ path' = [path EXCEPT ![r] = "/"]
    /\ command' = [command EXCEPT ![r] = Undefined]
    /\ res' = [res EXCEPT ![r] = [finished |-> FALSE, body |-> "none",
                                  finish |-> FALSE, close |-> FALSE]]
    /\ latch' = [latch EXCEPT ![r] = FALSE]
    /\ status' = [status EXCEPT ![r] = "none"]
    /\ owesNext' = [owesNext EXCEPT ![r] = FALSE]
    /\ hist' = [hist EXCEPT ![r] = NoEvents]
    /\ UNCHANGED <<config, factoryCalls, fbVia, cmdVars>>

\* Time passes: the sleep window of an open circuit elapses.
SleepWindowElapses(k) ==
    /\ circuitOpen[k] /\ ~sleepElapsed[k]
    /\ sleepElapsed' = [sleepElapsed EXCEPT ![k] = TRUE]
    /\ UNCHANGED <<config, factoryCalls, reqVars, liveConfig, counts, circuitOpen>>

Next ==
    \/ \E r \in Requests, p \in Paths : hystrix(r, p)
    \/ \E r \in Requests : execute(r)
    \/ \E r \in Requests : HandlerEnd(r)
    \/ \E r \in Requests : Finish(r)
    \/ \E r \in Requests : Close(r)
    \/ \E r \in Requests : StatusResolves(r)
    \/ \E r \in Requests : StatusRejects(r)
    \/ \E r \in Requests : CustomNext(r)
    \/ \E r \in Requests : CustomResolves(r)
    \/ \E r \in Requests : CustomRejects(r)
    \/ \E r \in Requests : Timeout(r)
    \/ \E r \in Requests : FallbackResolves(r)
    \/ \E r \in Requests : FallbackRejects(r)
    \/ \E r \in Requests : Retire(r)
    \/ \E k \in Keys : SleepWindowElapses(k)

Spec == Init /\ [][Next]_vars

\* ------------------------------------------- the configuration merge alone
\* Deployments that differ in config.hystrix only: a default layer and an
\* override for 'other', each any sparse choice of the three keys.  The
\* executor is a custom one whose promise settles, the fallback the default.
ConfigKeys == {VolumeKey, PercentKey, ForceOpenedKey}
Opt(S) == {{}} \cup {{x} : x \in S}
SparseLayer(V, P, F) ==
    [k \in {x \in ConfigKeys : \/ x = VolumeKey /\ V # {}
                               \/ x = PercentKey /\ P # {}
                               \/ x = ForceOpenedKey /\ F # {}} |->
        CASE k = VolumeKey -> CHOOSE v \in V : TRUE
          [] k = PercentKey -> CHOOSE v \in P : TRUE
          [] OTHER -> CHOOSE v \in F : TRUE]
SparseLayers ==
    {SparseLayer(V, P, F) : V \in Opt({1, 2}), P \in Opt({10}), F \in Opt(BOOLEAN)}

MergeConfigs ==
    { [commandResolver |-> "byPath", commandStatusResolver |-> TRUE,
       runCommand |-> "custom", commandExecutorFactory |-> "absent",
       fallback |-> "default",
       hystrix |-> [present |-> TRUE, default |-> d,
                    byCommand |-> [c \in Commands |-> IF c = "other" THEN o
                                                      ELSE NoLayer]]] :
        d \in SparseLayers, o \in SparseLayers }

MergeInit == config \in MergeConfigs /\ Fresh

MergeNext ==
    \/ \E r \in Requests, p \in Paths : hystrix(r, p)
    \/ \E r \in Requests : execute(r)
    \/ \E r \in Requests : CustomResolves(r)
    \/ \E r \in Requests : CustomRejects(r)
    \/ \E r \in Requests : Retire(r)

MergeSpec == MergeInit /\ [][MergeNext]_vars

\* ------------------------------------------------------ concurrent requests
\* A burst of up to MaxConcurrent requests in flight at once, in every
\* interleaving of their steps, shorter than a sleep window; the requests stay
\* on the server, so that signals can arrive late.  The tests' deployments:
\* their command resolver, 'other' tuned to volume threshold 1, the default
\* fallback, and either the default executor without a status resolver or a
\* custom executor.
ConcurrentConfigs ==
    { c \in Configs :
        /\ c.commandResolver = "byPath" /\ c.fallback = "default"
        /\ c.hystrix.present /\ c.hystrix.default = NoLayer
        /\ c.commandStatusResolver = (c.runCommand = "custom") }

ConcurrentInit == config \in ConcurrentConfigs /\ Fresh

\* A request arrives while others are in flight (requests are numbered in the
\* order of their arrival).
hystrixConcurrent(r, p) ==
    /\ r <= MaxConcurrent
    /\ \A q \in Requests : q < r => pc[q] # "idle"
    /\ hystrixCall(r, p)

ConcurrentNext ==
    \/ \E r \in Requests, p \in Paths : hystrixConcurrent(r, p)
    \/ \E r \in Requests : execute(r)
    \/ \E r \in Requests : HandlerEnd(r)
    \/ \E r \in Requests : Finish(r)
    \/ \E r \in Requests : Close(r)
    \/ \E r \in Requests : CustomNext(r)
    \/ \E r \in Requests : CustomResolves(r)
    \/ \E r \in Requests : CustomRejects(r)
    \/ \E r \in Requests : Timeout(r)

ConcurrentSpec == ConcurrentInit /\ [][ConcurrentNext]_vars

\* --------------------------------------------------------- executor factory
\* Deployments with and without an executor factory, with and without
\* config.runCommand (the tests' resolver and tuning, the default fallback),
\* served one request after another.
FactoryConfigs ==
    { c \in [commandResolver : {"byPath"},
             commandStatusResolver : BOOLEAN,
             runCommand : {"default", "custom"},
             commandExecutorFactory : FactoryKinds,
             fallback : {"default"},
             hystrix : {h \in HystrixConfigs : h.present /\ h.default = NoLayer}] :
        (c.runCommand = "custom" \/ c.commandExecutorFactory = "returnsExecutor")
            => c.commandStatusResolver }

FactoryInit == config \in FactoryConfigs /\ Fresh

FactoryNext ==
    \/ \E r \in Requests, p \in Paths : hystrix(r, p)
    \/ \E r \in Requests : execute(r)
    \/ \E r \in Requests : HandlerEnd(r)
    \/ \E r \in Requests : Finish(r)
    \/ \E r \in Requests : Close(r)
    \/ \E r \in Requests : StatusResolves(r)
    \/ \E r \in Requests : StatusRejects(r)
    \/ \E r \in Requests : CustomNext(r)
    \/ \E r \in Requests : CustomResolves(r)
    \/ \E r \in Requests : CustomRejects(r)
    \/ \E r \in Requests : Timeout(r)
    \/ \E r \in Requests : Retire(r)
    \/ \E k \in Keys : SleepWindowElapses(k)

FactorySpec == FactoryInit /\ [][FactoryNext]_vars

\* ------------------------------------------------------- progress (fairness)
\* Deployments with the default executor and the default fallback (the tests'
\* resolver and tuning), served one request after another.  hystrixjs runs the
\* deferred execute() and arms a timer for every command it starts: both
\* happen if they stay possible.  Nothing is assumed of the response: the
\* handler may never end it and the connection may stay open.
LiveConfigs ==
    { c \in Configs :
        /\ c.commandResolver = "byPath"
        /\ c.runCommand = "default" /\ c.fallback = "default"
        /\ c.hystrix.present /\ c.hystrix.default = NoLayer }

LiveInit == config \in LiveConfigs /\ Fresh

LiveNext ==
    \/ \E r \in Requests, p \in Paths : hystrix(r, p)
    \/ \E r \in Requests : execute(r)
    \/ \E r \in Requests : HandlerEnd(r)
    \/ \E r \in Requests : Finish(r)
    \/ \E r \in Requests : Close(r)
    \/ \E r \in Requests : StatusResolves(r)
    \/ \E r \in Requests : StatusRejects(r)
    \/ \E r \in Requests : Timeout(r)
    \/ \E r \in Requests : Retire(r)
    \/ \E k \in Keys : SleepWindowElapses(k)

LiveSpec ==
    /\ LiveInit /\ [][LiveNext]_vars
    /\ \A r \in Requests : WF_vars(execute(r)) /\ WF_vars(Timeout(r))

\* ------------------------------------------------------------------ claims
\* What the history of a request holds.
Marked(r, kind) == Count(hist[r], "mark", kind)
NextCalls(r) == {i \in 1..Len(hist[r]) : hist[r][i].ev = "next"}
DefaultDeployment == config.runCommand = "default"

\* 'finish' or 'close' is emitted on the response of r in this step.
SignalFires(r) ==
    /\ pc'[r] # "gone"
    /\ res'[r].finish # res[r].finish \/ res'[r].close # res[r].close

\* C1: default executor, no status resolver, circuit closed: the first of
\* 'finish' and 'close' records the request as SUCCESS, the SUCCESS counter of
\* its command grows by exactly 1 and no other counter moves (FAILURE by 0);
\* the other signal, whichever comes second, changes no counter.
C1_Step(r) ==
    (DefaultDeployment /\ ~config.commandStatusResolver /\ SignalFires(r))
        => IF pc[r] = "running"
           THEN circuitOpen[KeyOf(r)]
                \/ /\ pc'[r] = "done"
                   /\ counts' = [counts EXCEPT ![KeyOf(r)]["SUCCESS"] = @ + 1]
                   /\ Marked(r, "SUCCESS")' = 1 /\ Marked(r, "FAILURE")' = 0
           ELSE counts' = counts /\ hist' = hist

C1_SuccessExactlyOnce == [][\A r \in Requests : C1_Step(r)]_vars

\* C1 witness: both signals have fired on a response and its request is
\* recorded SUCCESS once.
C1_Witness ==
    \E r \in Requests :
        /\ DefaultDeployment /\ ~config.commandStatusResolver
        /\ res[r].finish /\ res[r].close
        /\ Marked(r, "SUCCESS") = 1
        /\ counts[KeyOf(r)]["SUCCESS"] >= 1

\* The volume threshold a deployment configures for command c: its override,
\* else the default layer's, else the library's.
ConfiguredVolume(c) ==
    IF config.hystrix.present /\ VolumeKey \in DOMAIN config.hystrix.byCommand[c]
    THEN config.hystrix.byCommand[c][VolumeKey]
    ELSE IF config.hystrix.present /\ VolumeKey \in DOMAIN config.hystrix.default
    THEN config.hystrix.default[VolumeKey]
    ELSE circuitBreakerRequestVolumeThreshold

\* The deferred execute() of request r runs in this step.
Executes(r) == pc[r] = "deferred" /\ pc'[r] # "deferred"

\* C2: consecutive failing requests to a command with volume threshold V (one
\* statistical window, default error threshold): while fewer than V requests
\* are recorded the next one is executed; once V are recorded FAILURE and
\* none SUCCESS, every further request is recorded SHORT_CIRCUITED and neither
\* FAILURE nor SUCCESS moves, until the sleep window has elapsed.
C2_Step(r) ==
    LET k == KeyOf(r)
        V == ConfiguredVolume(command[r])
    IN  (Executes(r) /\ counts[k]["SUCCESS"] = 0)
        => /\ HealthTotal(k) < V
                => pc'[r] = "running" /\ counts' = counts /\ Has(hist'[r], "run")
           /\ (counts[k]["FAILURE"] >= V /\ ~sleepElapsed[k])
                => /\ counts'[k]["SHORT_CIRCUITED"] = counts[k]["SHORT_CIRCUITED"] + 1
                   /\ counts'[k]["FAILURE"] = counts[k]["FAILURE"]
                   /\ counts'[k]["SUCCESS"] = 0
                   /\ Marked(r, "SHORT_CIRCUITED")' = 1
                   /\ Marked(r, "FAILURE")' = 0 /\ Marked(r, "SUCCESS")' = 0
                   /\ ~Has(hist'[r], "run")

C2_ShortCircuitAfterVolume == [][\A r \in Requests : C2_Step(r)]_vars

\* C2 witness: threshold 2, two requests recorded FAILURE, the third one
\* SHORT_CIRCUITED, none SUCCESS.
C2_Witness ==
    \E r \in Requests :
        /\ pc[r] = "done" /\ ConfiguredVolume(command[r]) = 2
        /\ Marked(r, "SHORT_CIRCUITED") = 1
        /\ counts[KeyOf(r)]["FAILURE"] = 2
        /\ counts[KeyOf(r)]["SHORT_CIRCUITED"] = 1
        /\ counts[KeyOf(r)]["SUCCESS"] = 0

\* What request r added to its history in this step.
NewEvents(r) ==
    IF Len(hist'[r]) > Len(hist[r])
    THEN SubSeq(hist'[r], Len(hist[r]) + 1, Len(hist'[r]))
    ELSE << >>
HasBy(h, ev, by) == \E i \in 1..Len(h) : h[i].ev = ev /\ h[i].by = by

\* C3: a request short-circuited by an open circuit, nothing written to its
\* response: the default fallback calls the continuation once, with the
\* open-circuit error, and its promise resolves; it does not reject.
C3_OpenCircuitFallback ==
    \A r \in Requests :
        (config.fallback = "default" /\ Marked(r, "SHORT_CIRCUITED") >= 1)
        => /\ Cardinality(NextCalls(r)) = 1
           /\ \A i \in NextCalls(r) :
                 hist[r][i].by = "defaultFallback" /\ hist[r][i].arg = OpenCircuitError
           /\ HasBy(hist[r], "resolve", "defaultFallback")
           /\ ~HasBy(hist[r], "reject", "defaultFallback")

\* C3 witness: a short-circuited request whose error handler produced the
\* fallback response after the default fallback resolved.
C3_Witness ==
    \E r \in Requests :
        /\ config.fallback = "default" /\ Marked(r, "SHORT_CIRCUITED") = 1
        /\ HasBy(hist[r], "resolve", "defaultFallback")
        /\ res[r].body = "fallback"

\* C4: the response is already finished when the default fallback runs: the
\* fallback does not call the continuation, rejects with the error it was
\* given, the request is recorded FALLBACK_FAILURE (that counter grows by 1,
\* FALLBACK_SUCCESS does not move) and the response is left as it was.
C4_Step(r) ==
    LET new == NewEvents(r)
        k == KeyOf(r)
    IN  (config.fallback = "default" /\ pc'[r] # "gone" /\ Has(new, "fallback")
            /\ res[r].finished)
        => /\ ~Has(new, "next")
           /\ \E i, j \in 1..Len(new) :
                 /\ new[i].ev = "fallback" /\ new[j].ev = "reject"
                 /\ new[j].by = "defaultFallback" /\ new[j].arg = new[i].arg
           /\ ~HasBy(new, "resolve", "defaultFallback")
           /\ Marked(r, "FALLBACK_FAILURE")' = 1 /\ Marked(r, "FALLBACK_SUCCESS")' = 0
           /\ counts'[k]["FALLBACK_FAILURE"] = counts[k]["FALLBACK_FAILURE"] + 1
           /\ counts'[k]["FALLBACK_SUCCESS"] = counts[k]["FALLBACK_SUCCESS"]
           /\ res'[r].body = res[r].body /\ res'[r].finished

C4_FinishedResponseUntouched == [][\A r \in Requests : C4_Step(r)]_vars

\* C4 witness: the default fallback has rejected on a finished response,
\* without a continuation call of its own.
C4_Witness ==
    \E r \in Requests :
        /\ config.fallback = "default" /\ res[r].finished
        /\ HasBy(hist[r], "reject", "defaultFallback")
        /\ ~HasBy(hist[r], "next", "defaultFallback")
        /\ Marked(r, "FALLBACK_FAILURE") = 1

\* C5: a request rejected by an open circuit: no executor (default or
\* custom) and no status resolver is invoked for it, no listener is
\* registered on its response, the executor's continuation call never
\* happens; the fallback runs, and with the default fallback the handlers of
\* the normal chain are never reached (the continuation only gets the error).
C5_OpenCircuitSkipsExecutor ==
    \A r \in Requests :
        Marked(r, "SHORT_CIRCUITED") >= 1
        => /\ ~Has(hist[r], "run") /\ ~Has(hist[r], "status")
           /\ status[r] = "none" /\ ~latch[r] /\ ~owesNext[r]
           /\ ~HasBy(hist[r], "next", "executor")
           /\ Has(hist[r], "fallback")
           /\ config.fallback = "default"
                => /\ \A i \in NextCalls(r) : hist[r][i].arg # Undefined
                   /\ res[r].body # "ok"

\* C5 witness: with a custom executor configured, a short-circuited request
\* has gone through the fallback only.
C5_Witness ==
    \E r \in Requests :
        /\ config.runCommand = "custom" /\ Marked(r, "SHORT_CIRCUITED") = 1
        /\ pc[r] = "done" /\ Has(hist[r], "fallback") /\ ~Has(hist[r], "run")

\* The status resolver's promise of request r settles in this step.
StatusSettles(r) == status[r] = "pending" /\ status'[r] \in {"resolved", "rejected"}

\* C6: default executor with a status resolver: a running request is
\* recorded FAILURE exactly when the resolver's promise rejects and SUCCESS
\* exactly when it resolves (the counter of its command grows by 1, the other
\* one does not move); nothing else makes FAILURE or SUCCESS grow.
C6_Step ==
    (DefaultDeployment /\ config.commandStatusResolver)
    => /\ \A r \in Requests :
            (StatusSettles(r) /\ pc[r] = "running")
            => LET k == KeyOf(r) IN
               IF status'[r] = "rejected"
               THEN /\ Marked(r, "FAILURE")' = 1 /\ Marked(r, "SUCCESS")' = 0
                    /\ counts'[k]["FAILURE"] = counts[k]["FAILURE"] + 1
                    /\ counts'[k]["SUCCESS"] = counts[k]["SUCCESS"]
               ELSE /\ Marked(r, "SUCCESS")' = 1 /\ Marked(r, "FAILURE")' = 0
                    /\ \/ circuitOpen[k]
                       \/ /\ counts'[k]["SUCCESS"] = counts[k]["SUCCESS"] + 1
                          /\ counts'[k]["FAILURE"] = counts[k]["FAILURE"]
       /\ \A k \in Keys :
            /\ counts'[k]["FAILURE"] > counts[k]["FAILURE"]
                 => \E r \in Requests :
                       StatusSettles(r) /\ status'[r] = "rejected" /\ KeyOf(r) = k
            /\ counts'[k]["SUCCESS"] > counts[k]["SUCCESS"]
                 => \E r \in Requests :
                       StatusSettles(r) /\ status'[r] = "resolved" /\ KeyOf(r) = k

C6_StatusResolverDecides == [][C6_Step]_vars

\* C6 witness: the handler answered 'ok', the status resolver rejected and
\* the request is recorded FAILURE.
C6_Witness ==
    \E r \in Requests :
        /\ DefaultDeployment /\ config.commandStatusResolver
        /\ status[r] = "rejected" /\ res[r].body = "ok"
        /\ Marked(r, "FAILURE") = 1 /\ Marked(r, "SUCCESS") = 0
        /\ counts[KeyOf(r)]["FAILURE"] >= 1

\* C7: counters are kept per command identity: a step changes the counters
\* of a command only when a request of that identity acts in it, and a
\* request that records an outcome changes the counters of its own identity
\* and of no other.
C7_Step ==
    /\ \A B \in Keys :
          counts'[B] # counts[B]
          => \E r \in Requests : pc'[r] # "gone" /\ hist'[r] # hist[r] /\ command[r] = B
    /\ \A r \in Requests :
          (pc'[r] # "gone" /\ Has(NewEvents(r), "mark"))
          => /\ counts'[command[r]] # counts[command[r]]
             /\ \A B \in Keys \ {command[r]} : counts'[B] = counts[B]
             /\ \A i \in 1..Len(hist'[r]) :
                   hist'[r][i].ev = "mark" => hist'[r][i].by = command[r]

C7_CountersPerIdentity == [][C7_Step]_vars

\* C7 witness: one SUCCESS for 'home', then one FAILURE for 'other', each in
\* its own counters.
C7_Witness ==
    /\ counts["home"]["SUCCESS"] = 1 /\ counts["home"]["FAILURE"] = 0
    /\ counts["other"]["FAILURE"] = 1 /\ counts["other"]["SUCCESS"] = 0
    /\ \E r \in Requests : pc[r] = "done" /\ command[r] = "other"

\* The recorded outcomes of command B alone reach its configured thresholds.
OwnHealthTrips(B) ==
    /\ HealthTotal(B) >= ConfiguredVolume(B)
    /\ HealthErrors(B) * 100 > circuitBreakerErrorThresholdPercentage * HealthTotal(B)

\* C8: a request to command B is short-circuited only on B's own circuit
\* (open, or B's own counters reaching B's own thresholds); whatever the
\* circuits of the other commands, it is executed otherwise, and it leaves the
\* circuits and counters of the other commands alone.
C8_Step(r) ==
    LET B == command[r] IN
    Executes(r)
    => /\ (~circuitOpen[B] /\ ~OwnHealthTrips(B))
            => pc'[r] = "running" /\ Has(hist'[r], "run")
       /\ Marked(r, "SHORT_CIRCUITED")' >= 1 => (circuitOpen[B] \/ OwnHealthTrips(B))
       /\ \A A \in Keys \ {B} :
             circuitOpen'[A] = circuitOpen[A] /\ counts'[A] = counts[A]

C8_CircuitsIndependent == [][\A r \in Requests : C8_Step(r)]_vars

\* C8 witness: the circuit of one command is open while a request to another
\* command, whose circuit is closed, is being executed.
C8_Witness ==
    \E r \in Requests, A \in Commands :
        /\ circuitOpen[A] /\ command[r] \in Commands \ {A}
        /\ ~circuitOpen[command[r]]
        /\ pc[r] = "running" /\ Has(hist[r], "run")

\* Request r has entered hystrix() and not been dropped.
Arrived(r) == pc[r] \notin {"idle", "gone"}
Resolved(r) ==
    IF config.commandResolver = "absent" THEN Undefined
    ELSE commandResolver(config.commandResolver, path[r])

\* C9: without a command resolver the identity of a request is its path; with
\* a resolver that returns a non-empty string it is that string, and that
\* string keys the breaker (every recorded outcome), the per-command
\* configuration that was merged, and is the command passed to execute.
C9_Identity ==
    \A r \in Requests :
        (Arrived(r) /\ (config.commandResolver = "absent"
                          \/ Resolved(r) \notin {"", Undefined, Throws}))
        => LET id == IF config.commandResolver = "absent" THEN path[r]
                     ELSE Resolved(r)
           IN /\ command[r] = id
              /\ liveConfig[id][VolumeKey] = ConfiguredVolume(id)
              /\ \A i \in 1..Len(hist[r]) :
                    /\ hist[r][i].ev = "mark" => hist[r][i].by = id
                    /\ hist[r][i].ev \in {"run", "fallback"} => hist[r][i].args[1] = id

\* C9 witness: path '/other' resolved to 'other', recorded and configured
\* under that name.
C9_Witness ==
    \E r \in Requests :
        /\ config.commandResolver = "byPath" /\ path[r] = "/other"
        /\ command[r] = "other" /\ liveConfig["other"][VolumeKey] = 1
        /\ Marked(r, "FAILURE") = 1 /\ counts["other"]["FAILURE"] = 1
        /\ counts["/other"]["FAILURE"] = 0

\* C10 as claimed: when the resolver throws, the identity of the request is
\* its path and the request is executed as a command all the same.
C10_Original ==
    \A r \in Requests :
        (Arrived(r) /\ Resolved(r) = Throws)
        => command[r] = path[r] /\ pc[r] # "threw"

\* C10 as amended: when the resolver throws, the exception leaves hystrix():
\* the request gets no identity, no command is executed and nothing is
\* recorded for it.  The identity is the path when the resolver returns an
\* empty value, and the request is then executed under its path.
C10_ThrowPropagates ==
    \A r \in Requests :
        Arrived(r)
        => /\ Resolved(r) = Throws
                => /\ pc[r] = "threw" /\ command[r] = Undefined
                   /\ hist[r] = NoEvents /\ ~res[r].finished
           /\ Resolved(r) = ""
                => /\ command[r] = path[r] /\ pc[r] # "threw"
                   /\ \A i \in 1..Len(hist[r]) :
                         hist[r][i].ev = "mark" => hist[r][i].by = path[r]

\* C10 witness: the resolver threw for a request after an earlier request was
\* recorded; the counters are those of the earlier request.
C10_Witness ==
    \E r \in Requests :
        /\ pc[r] = "threw" /\ Resolved(r) = Throws
        /\ counts["home"]["SUCCESS"] = 1
        /\ \A k \in Keys \ {"home"} : \A x \in Kinds : counts[k][x] = 0

\* hystrix() runs for request r in this step and builds a command.
Merges(r) == pc[r] = "idle" /\ pc'[r] = "deferred"

\* C11: the merge of hystrix(): for every key the command's configuration
\* holds afterwards the override's value if the override sets the key, else
\* the default layer's if that sets it, else the value the command had before;
\* merging the same layers once more changes nothing; no other command's
\* configuration is touched.
C11_Step(r) ==
    LET c == command'[r]
        hy == config.hystrix
    IN  Merges(r)
        => /\ \A key \in ConfigKeys :
                liveConfig'[c][key] =
                    IF hy.present /\ key \in DOMAIN hy.byCommand[c]
                    THEN hy.byCommand[c][key]
                    ELSE IF hy.present /\ key \in DOMAIN hy.default
                    THEN hy.default[key]
                    ELSE liveConfig[c][key]
           /\ DOMAIN liveConfig'[c] = ConfigKeys
           /\ MergeConfig(liveConfig'[c], hy, c) = liveConfig'[c]
           /\ \A B \in Keys \ {c} : liveConfig'[B] = liveConfig[B]

C11_MergeLayers == [][\A r \in Requests : C11_Step(r)]_vars

\* C11 witness: for 'other' the override's volume threshold replaced the
\* default layer's, the percentage came from the default layer alone and the
\* force-open flag, set by neither, is the one the command had.
C11_Witness ==
    \E r \in Requests :
        /\ pc[r] = "deferred" /\ command[r] = "other"
        /\ VolumeKey \in DOMAIN config.hystrix.default
        /\ config.hystrix.default[VolumeKey] = 2
        /\ DOMAIN config.hystrix.byCommand["other"] = {VolumeKey}
        /\ DOMAIN config.hystrix.default = {VolumeKey, PercentKey}
        /\ liveConfig["other"][VolumeKey] = 1
        /\ liveConfig["other"][PercentKey] = 10
        /\ liveConfig["other"][ForceOpenedKey] = FALSE

\* The configuration a deployment gives command B: per key B's own override,
\* else the default layer, else what hystrixjs starts with.
OwnConfig(B) ==
    LET hy == config.hystrix IN
    [key \in ConfigKeys |->
        IF hy.present /\ key \in DOMAIN hy.byCommand[B] THEN hy.byCommand[B][key]
        ELSE IF hy.present /\ key \in DOMAIN hy.default THEN hy.default[key]
        ELSE LibraryConfig[key]]

\* B's counters reach the thresholds of B's own configuration.
OwnConfigTrips(B) ==
    /\ HealthTotal(B) >= OwnConfig(B)[VolumeKey]
    /\ HealthErrors(B) * 100 > OwnConfig(B)[PercentKey] * HealthTotal(B)

\* C12: no override leaks: the configuration of the command of every request
\* holds, key by key, only B's own override, the default layer or the
\* library's value, never a value of another command's override; and a
\* request to B is short-circuited only when B's own configuration says so
\* (forced open, circuit open, or B's counters reaching B's own thresholds).
C12_Step ==
    /\ \A r \in Requests :
          (Arrived(r)' /\ command'[r] # Undefined)
          => liveConfig'[command'[r]] = OwnConfig(command'[r])
    /\ \A B \in Commands : liveConfig'[B] \in {LibraryConfig, OwnConfig(B)}
    /\ \A r \in Requests :
          (Executes(r) /\ Marked(r, "SHORT_CIRCUITED")' >= 1)
          => \/ OwnConfig(command[r])[ForceOpenedKey]
             \/ circuitOpen[command[r]]
             \/ OwnConfigTrips(command[r])

C12_NoOverrideLeak == [][C12_Step]_vars

\* C12 witness: 'other' is overridden to volume threshold 1, 'home' is not;
\* 'home' has one failure recorded and its next request is executed, under a
\* configuration with the library's threshold, while 'other' holds its own.
C12_Witness ==
    \E r \in Requests :
        /\ command[r] = "home" /\ pc[r] = "running"
        /\ counts["home"]["FAILURE"] = 1 /\ HealthTotal("home") = 1
        /\ counts["other"]["FAILURE"] = 1
        /\ VolumeKey \in DOMAIN config.hystrix.byCommand["other"]
        /\ config.hystrix.byCommand["other"][VolumeKey] = 1
        /\ VolumeKey \notin DOMAIN config.hystrix.default
        /\ liveConfig["other"][VolumeKey] = 1
        /\ liveConfig["home"][VolumeKey] = circuitBreakerRequestVolumeThreshold

\* The command of request r settles in this step.
Settles(r) == pc[r] = "running" /\ pc'[r] \in {"done", "fallback"}

\* C13: custom executor: the executor the deployment configured is the one
\* that runs, and a running request is recorded by the promise it returned
\* alone: SUCCESS (+1, FAILURE unmoved) when it resolves, FAILURE (+1, SUCCESS
\* unmoved) when it rejects, whether or not the continuation has been called
\* and whatever the response holds; nothing else but the command's timeout
\* settles the command, and no status resolver is consulted.
C13_Step(r) ==
    LET k == KeyOf(r)
        new == NewEvents(r)
    IN  config.runCommand = "custom"
        => /\ (Executes(r) /\ pc'[r] = "running")
                => HasBy(new, "run", "runCommand") /\ ~Has(new, "next")
           /\ ~Has(hist'[r], "status")
           /\ Settles(r)
                => \/ /\ HasBy(new, "resolve", "runCommand")
                      /\ Marked(r, "SUCCESS")' = 1 /\ Marked(r, "FAILURE")' = 0
                      /\ \/ circuitOpen[k]
                         \/ /\ counts'[k]["SUCCESS"] = counts[k]["SUCCESS"] + 1
                            /\ counts'[k]["FAILURE"] = counts[k]["FAILURE"]
                   \/ /\ HasBy(new, "reject", "runCommand")
                      /\ Marked(r, "FAILURE")' = 1 /\ Marked(r, "SUCCESS")' = 0
                      /\ counts'[k]["FAILURE"] = counts[k]["FAILURE"] + 1
                      /\ counts'[k]["SUCCESS"] = counts[k]["SUCCESS"]
                   \/ /\ Marked(r, "TIMEOUT")' = 1
                      /\ Marked(r, "FAILURE")' = 0 /\ Marked(r, "SUCCESS")' = 0
           /\ (pc'[r] # "gone" /\ res'[r] # res[r]) => counts' = counts

C13_CustomExecutorDecides == [][\A r \in Requests : C13_Step(r)]_vars

\* C13 witness: the executor called the continuation, the handler answered
\* 'ok', and the executor's promise then rejected: recorded FAILURE.
C13_Witness ==
    \E r \in Requests :
        /\ config.runCommand = "custom"
        /\ HasBy(hist[r], "next", "executor") /\ res[r].finished /\ res[r].body = "ok"
        /\ HasBy(hist[r], "reject", "runCommand")
        /\ Marked(r, "FAILURE") = 1 /\ Marked(r, "SUCCESS") = 0

\* The error hystrixjs hands to the fallback for an outcome recorded in `new`.
FailureError(new) ==
    IF \E i \in 1..Len(new) : new[i].ev = "reject" /\ new[i].by # "customFallback"
    THEN new[CHOOSE i \in 1..Len(new) :
                 new[i].ev = "reject" /\ new[i].by # "customFallback"].arg
    ELSE IF \E i \in 1..Len(new) : new[i].ev = "mark" /\ new[i].arg = "TIMEOUT"
    THEN CommandTimeOut
    ELSE OpenCircuitError

\* C14: a custom fallback replaces the default one: it is called with the
\* error, then command, request, response and continuation of the request in
\* that order; the default fallback never runs and never calls the
\* continuation; when the fallback's promise settles after a failed execution
\* the request is recorded FALLBACK_SUCCESS (+1) if it resolved and
\* FALLBACK_FAILURE (+1) if it rejected, and the other counter does not move.
C14_Step(r) ==
    LET k == KeyOf(r)
        new == NewEvents(r)
    IN  (config.fallback = "custom" /\ pc'[r] # "gone")
        => /\ \A i \in 1..Len(new) :
                new[i].ev = "fallback"
                => /\ new[i].by = "custom"
                   /\ new[i].arg = FailureError(new)
                   /\ new[i].args = <<command[r], "req", "res", "next">>
           /\ ~HasBy(hist'[r], "fallback", "default")
           /\ ~HasBy(hist'[r], "next", "defaultFallback")
           /\ (Has(new, "mark") /\ ~Has(new, "fallback")
                  /\ \E i \in 1..Len(new) : new[i].ev = "mark" /\ new[i].arg # "SUCCESS")
                => Has(hist[r], "fallback")
           /\ (pc[r] = "fallback" /\ pc'[r] = "done" /\ Marked(r, "SHORT_CIRCUITED") = 0)
                => IF HasBy(new, "resolve", "customFallback")
                   THEN /\ Marked(r, "FALLBACK_SUCCESS")' = 1
                        /\ Marked(r, "FALLBACK_FAILURE")' = 0
                        /\ counts' = [counts EXCEPT ![k]["FALLBACK_SUCCESS"] = @ + 1]
                   ELSE /\ HasBy(new, "reject", "customFallback")
                        /\ Marked(r, "FALLBACK_FAILURE")' = 1
                        /\ Marked(r, "FALLBACK_SUCCESS")' = 0
                        /\ counts' = [counts EXCEPT ![k]["FALLBACK_FAILURE"] = @ + 1]

C14_CustomFallbackReplaces == [][\A r \in Requests : C14_Step(r)]_vars

\* C14 witness (the tests' deployment): the executor called the continuation
\* and rejected with Boom, the custom fallback got (Boom, 'home', req, res,
\* next) and resolved: FALLBACK_SUCCESS, the response is the handler's 'ok'.
C14_Witness ==
    \E r \in Requests :
        /\ config.fallback = "custom" /\ config.runCommand = "custom"
        /\ command[r] = "home" /\ pc[r] = "done" /\ res[r].body = "ok"
        /\ \E i \in 1..Len(hist[r]) :
              /\ hist[r][i].ev = "fallback" /\ hist[r][i].arg = Boom
              /\ hist[r][i].args = <<"home", "req", "res", "next">>
        /\ Marked(r, "FAILURE") = 1 /\ Marked(r, "FALLBACK_SUCCESS") = 1
        /\ counts["home"]["FALLBACK_SUCCESS"] = 1

\* How often the fallback was invoked for request r, and how often a
\* fallback's promise settled.
FallbackCalls(r) == Cardinality({i \in 1..Len(hist[r]) : hist[r][i].ev = "fallback"})
FallbackSettled(r) ==
    Cardinality({i \in 1..Len(hist[r]) :
                    /\ hist[r][i].ev \in {"resolve", "reject"}
                    /\ hist[r][i].by \in {"defaultFallback", "customFallback"}})
FailedOutcomes(r) ==
    Marked(r, "FAILURE") + Marked(r, "TIMEOUT") + Marked(r, "SHORT_CIRCUITED")

\* C15: every request gets at most one outcome; the fallback is invoked
\* once when it is FAILURE, TIMEOUT or SHORT_CIRCUITED and not at all when it
\* is SUCCESS (in particular: not when the status resolver resolved, once
\* when it rejected, the timeout aside); a fallback that rejected is not
\* invoked again.
C15_FallbackExactlyOnce ==
    \A r \in Requests :
        /\ Marked(r, "SUCCESS") + FailedOutcomes(r) <= 1
        /\ FallbackCalls(r) = FailedOutcomes(r)
        /\ Marked(r, "SUCCESS") >= 1 => FallbackCalls(r) = 0
        /\ FallbackSettled(r) <= FallbackCalls(r)
        /\ pc[r] = "done" => FallbackSettled(r) = FallbackCalls(r)
        /\ Marked(r, "FALLBACK_SUCCESS") + Marked(r, "FALLBACK_FAILURE") <= FallbackSettled(r)
        /\ (pc[r] = "done" /\ Marked(r, "TIMEOUT") = 0 /\ status[r] = "resolved")
              => FallbackCalls(r) = 0
        /\ (pc[r] \in {"fallback", "done"} /\ Marked(r, "TIMEOUT") = 0
              /\ status[r] = "rejected")
              => FallbackCalls(r) = 1

\* C15 witness: a custom fallback rejected for a request recorded FAILURE by
\* the status resolver; it was invoked once and the request is over.
C15_Witness ==
    \E r \in Requests :
        /\ pc[r] = "done" /\ status[r] = "rejected" /\ Marked(r, "FAILURE") = 1
        /\ HasBy(hist[r], "reject", "customFallback")
        /\ FallbackCalls(r) = 1 /\ Marked(r, "FALLBACK_FAILURE") = 1

\* C16: a request rejected by the open circuit adds exactly 1 to
\* SHORT_CIRCUITED of its command in the step that rejects it and changes no
\* other counter then or later, although its fallback (default or custom) is
\* invoked and its promise settles: SUCCESS, FAILURE, FALLBACK_SUCCESS and
\* FALLBACK_FAILURE stay as they were.
C16_Step(r) ==
    LET k == command[r] IN
    (pc'[r] # "gone" /\ hist'[r] # hist[r] /\ Marked(r, "SHORT_CIRCUITED")' >= 1)
    => /\ Marked(r, "SHORT_CIRCUITED")' = 1
       /\ \A x \in Kinds \ {"SHORT_CIRCUITED"} : Marked(r, x)' = 0
       /\ Has(hist'[r], "fallback")
       /\ IF Marked(r, "SHORT_CIRCUITED") = 0
          THEN counts' = [counts EXCEPT ![k]["SHORT_CIRCUITED"] = @ + 1]
          ELSE counts' = counts
       /\ pc'[r] = "done" => FallbackSettled(r)' = 1

C16_ShortCircuitCountsOnce == [][\A r \in Requests : C16_Step(r)]_vars

\* C16 witness: after one recorded failure (whose fallback was counted) the
\* next request was short-circuited, its fallback resolved, and the counters
\* read FAILURE 1, SHORT_CIRCUITED 1, FALLBACK_SUCCESS 1, SUCCESS 0.
C16_Witness ==
    \E r \in Requests :
        /\ pc[r] = "done" /\ Marked(r, "SHORT_CIRCUITED") = 1
        /\ FallbackCalls(r) = 1 /\ FallbackSettled(r) = 1
        /\ \E i \in 1..Len(hist[r]) :
              hist[r][i].ev = "resolve"
              /\ hist[r][i].by \in {"defaultFallback", "customFallback"}
        /\ counts[command[r]]["SHORT_CIRCUITED"] = 1
        /\ counts[command[r]]["FAILURE"] = 1
        /\ counts[command[r]]["FALLBACK_SUCCESS"] = 1
        /\ counts[command[r]]["FALLBACK_FAILURE"] = 0
        /\ counts[command[r]]["SUCCESS"] = 0

\* C17: default executor, no status resolver: when the connection is aborted
\* ('close') before the response is finished, the running request is settled
\* in that very step, as one SUCCESS (+1 for its command) and nothing else, no
\* FAILURE and no fallback outcome; whatever happens to the response after a
\* 'close' (the handler finishing it, 'finish') changes neither the record of
\* the request nor any counter, and no request stays running after 'close'.
\* (A request the command's timeout settled before the abort is recorded
\* TIMEOUT and is not meant.)
C17_Step(r) ==
    LET k == KeyOf(r) IN
    (DefaultDeployment /\ ~config.commandStatusResolver /\ pc'[r] # "gone")
    => /\ (res'[r].close /\ ~res[r].close /\ ~res[r].finished /\ pc[r] = "running")
            => /\ pc'[r] = "done"
               /\ Marked(r, "SUCCESS")' = 1
               /\ \A x \in Kinds \ {"SUCCESS"} : Marked(r, x)' = 0
               /\ ~Has(hist'[r], "fallback")
               /\ \/ circuitOpen[k]
                  \/ counts' = [counts EXCEPT ![k]["SUCCESS"] = @ + 1]
       /\ res'[r].close => pc'[r] # "running"
       /\ (res[r].close /\ Marked(r, "TIMEOUT") = 0)
            => hist'[r] = hist[r] /\ counts' = counts

C17_AbortIsSuccess == [][\A r \in Requests : C17_Step(r)]_vars

\* C17 witness: the connection was aborted on an unfinished response, the
\* request is recorded SUCCESS once, and the handler finished the response
\* afterwards ('finish' has fired too).
C17_Witness ==
    \E r \in Requests :
        /\ DefaultDeployment /\ ~config.commandStatusResolver
        /\ res[r].close /\ res[r].finish /\ pc[r] = "done"
        /\ hist[r] = <<EvArgs("run", "defaultRunCommand", command[r],
                              ExecuteArgs(command[r])),
                       Ev("next", "executor", Undefined),
                       Ev("resolve", "handleResponseStatus", Undefined),
                       Ev("mark", command[r], "SUCCESS")>>
        /\ counts[command[r]]["SUCCESS"] = 1 /\ counts[command[r]]["FAILURE"] = 0
        /\ counts[command[r]]["FALLBACK_SUCCESS"] = 0

\* Where in the history of r the status resolver was invoked.
StatusCalls(r) == {i \in 1..Len(hist[r]) : hist[r][i].ev = "status"}

\* What holds of the status resolver's invocations in a state.
StatusCalledInOrder ==
    \A r \in Requests :
        /\ Cardinality(StatusCalls(r)) <= 1
        /\ (status[r] # "none") = (StatusCalls(r) # {})
        /\ \A i \in StatusCalls(r) :
              /\ res[r].finish \/ res[r].close
              /\ latch[r]
              /\ \E j \in 1..(i - 1) :
                    hist[r][j].ev = "next" /\ hist[r][j].by = "executor"
              /\ \E j \in 1..(i - 1) :
                    hist[r][j].ev = "run" /\ hist[r][j].by = "defaultRunCommand"

\* C18: per request the status resolver is invoked at most once, only once
\* 'finish' or 'close' has fired on its response and only after the default
\* executor called the continuation; a lifecycle signal that finds the latch
\* set invokes nothing and changes neither the resolver's promise, the record
\* of the request nor any counter.
C18_Step ==
    /\ StatusCalledInOrder'
    /\ \A r \in Requests :
          (SignalFires(r) /\ latch[r])
          => /\ hist'[r] = hist[r] /\ status'[r] = status[r]
             /\ pc'[r] = pc[r] /\ counts' = counts
    /\ \A r \in Requests :
          (pc'[r] # "gone" /\ Has(NewEvents(r), "status"))
          => SignalFires(r) /\ ~latch[r]

C18_StatusResolverOnce == [][C18_Step]_vars

\* C18 witness: 'finish' and 'close' have both fired, the status resolver
\* was invoked once and its promise has settled.
C18_Witness ==
    \E r \in Requests :
        /\ res[r].finish /\ res[r].close
        /\ Cardinality(StatusCalls(r)) = 1
        /\ status[r] \in {"resolved", "rejected"}
        /\ Marked(r, "SUCCESS") + Marked(r, "FAILURE") = 1

\* Positions in the history of r: outcome marks, fallback-outcome marks,
\* settlements of the fallback's promise.
OutcomeMarks(r) ==
    {i \in 1..Len(hist[r]) : hist[r][i].ev = "mark" /\ hist[r][i].arg \in Outcomes}
FallbackMarks(r) ==
    {i \in 1..Len(hist[r]) : hist[r][i].ev = "mark" /\ hist[r][i].arg \in FallbackOutcomes}
FallbackSettlements(r) ==
    {i \in 1..Len(hist[r]) :
        /\ hist[r][i].ev \in {"resolve", "reject"}
        /\ hist[r][i].by \in {"defaultFallback", "customFallback"}}

\* C19: within a request the outcome is recorded before the fallback is
\* dispatched, and the fallback's own outcome is recorded after the
\* fallback's promise settled with that result; while a fallback is in
\* flight the outcome is already in the command's counters and no fallback
\* outcome of the request is.
C19_OutcomeBeforeFallback ==
    \A r \in Requests :
        /\ \A i \in 1..Len(hist[r]) :
              hist[r][i].ev = "fallback"
              => \E j \in OutcomeMarks(r) :
                    j < i /\ hist[r][j].arg # "SUCCESS"
                    /\ counts[command[r]][hist[r][j].arg] >= 1
        /\ \A i \in FallbackMarks(r) :
              \E j \in FallbackSettlements(r) :
                 /\ j < i
                 /\ hist[r][i].arg = IF hist[r][j].ev = "resolve"
                                     THEN "FALLBACK_SUCCESS" ELSE "FALLBACK_FAILURE"
                 /\ \E f \in 1..(j - 1) : hist[r][f].ev = "fallback"
        /\ pc[r] = "fallback"
              => /\ FailedOutcomes(r) = 1 /\ FallbackCalls(r) = 1
                 /\ FallbackSettlements(r) = {} /\ FallbackMarks(r) = {}

\* C19 witness: a custom fallback in flight for a request already recorded
\* FAILURE, no fallback outcome recorded for the command yet.
C19_Witness ==
    \E r \in Requests :
        /\ pc[r] = "fallback" /\ Marked(r, "FAILURE") = 1
        /\ counts[command[r]]["FAILURE"] = 1
        /\ counts[command[r]]["FALLBACK_SUCCESS"] = 0
        /\ counts[command[r]]["FALLBACK_FAILURE"] = 0

\* C20: default executor and default fallback: over the lifetime of a
\* request the continuation is invoked at most once, whatever the order of
\* the handler ending the response, 'finish', 'close', the status resolver
\* settling and the command's timeout.
C20_ContinuationAtMostOnce ==
    \A r \in Requests :
        (DefaultDeployment /\ config.fallback = "default")
        => Cardinality(NextCalls(r)) <= 1

\* C21: the default fallback on an unfinished response: it calls the
\* continuation once and resolves; the continuation gets the error only when
\* it is the open-circuit error, and no error after a handler failure or a
\* timeout, which is then recorded FALLBACK_SUCCESS (+1).  No continuation call
\* of the default fallback ever carries another error.
C21_Step(r) ==
    LET new == NewEvents(r)
        k == KeyOf(r)
        byFallback == {i \in 1..Len(new) :
                          new[i].ev = "next" /\ new[i].by = "defaultFallback"}
    IN  (config.fallback = "default" /\ pc'[r] # "gone")
        => /\ \A i \in byFallback : new[i].arg \in {Undefined, OpenCircuitError}
           /\ (HasBy(new, "fallback", "default") /\ ~res[r].finished)
                => /\ Cardinality(byFallback) = 1
                   /\ HasBy(new, "resolve", "defaultFallback")
                   /\ ~HasBy(new, "reject", "defaultFallback")
                   /\ \A i \in byFallback :
                         (new[i].arg = OpenCircuitError)
                            = (FailureError(new) = OpenCircuitError)
                   /\ FailureError(new) # OpenCircuitError
                         => /\ Marked(r, "FAILURE")' + Marked(r, "TIMEOUT")' = 1
                            /\ Marked(r, "FALLBACK_SUCCESS")' = 1
                            /\ Marked(r, "FALLBACK_FAILURE")' = 0
                            /\ counts'[k]["FALLBACK_SUCCESS"]
                                  = counts[k]["FALLBACK_SUCCESS"] + 1

C21_OnlyOpenCircuitForwarded == [][\A r \in Requests : C21_Step(r)]_vars

\* C21 witness: the status resolver rejected with Boom on a response the
\* client had aborted before it was finished; the default fallback called the
\* continuation without an error and is recorded FALLBACK_SUCCESS.
C21_Witness ==
    \E r \in Requests :
        /\ config.fallback = "default" /\ status[r] = "rejected"
        /\ \E i \in 1..Len(hist[r]) :
              hist[r][i].ev = "fallback" /\ hist[r][i].arg = Boom
        /\ \E i \in 1..Len(hist[r]) :
              /\ hist[r][i].ev = "next" /\ hist[r][i].by = "defaultFallback"
              /\ hist[r][i].arg = Undefined
        /\ Marked(r, "FAILURE") = 1 /\ Marked(r, "FALLBACK_SUCCESS") = 1

\* Primary outcomes: those request r has recorded, and those all the
\* counters hold together.
PrimaryMarks(r) ==
    Marked(r, "SUCCESS") + Marked(r, "FAILURE") + Marked(r, "TIMEOUT")
        + Marked(r, "SHORT_CIRCUITED")
TotalOutcomes ==
    HealthTotal("/") + HealthTotal("/other") + HealthTotal("home")
        + HealthTotal("other") + HealthTotal(GROUP)

\* The requests that record their primary outcome in this step, and those of
\* them whose SUCCESS closes the open circuit of their command.
RecordsOutcome == {r \in Requests : PrimaryMarks(r) = 0 /\ PrimaryMarks(r)' = 1}
ClosesCircuit ==
    {r \in RecordsOutcome : Marked(r, "SUCCESS")' = 1 /\ circuitOpen[KeyOf(r)]}

\* C22 as stated: with every request settled, the four primary counters of
\* all commands sum to the number of requests handled.
C22_Original ==
    (\A r \in Requests : pc[r] \in {"idle", "done"})
    => TotalOutcomes = Cardinality({r \in Requests : pc[r] = "done"})

\* C22: requests in flight together, to the same command or not: every
\* request records at most one primary outcome, and exactly one once it has
\* settled; every recorded outcome adds one to the four primary counters of
\* all commands together, except a SUCCESS that closes the open circuit of its
\* command, which leaves that command's counters at zero and the other
\* commands' as they were; a 'finish' or 'close' after a timeout adds
\* nothing, while the first signal on the response of a running request (no
\* status resolver) records that request whatever the others have done.
C22_Step ==
    /\ \A r \in Requests :
          /\ PrimaryMarks(r)' <= 1
          /\ pc'[r] = "done" => PrimaryMarks(r)' = 1
          /\ pc'[r] \in {"idle", "deferred", "running"} => PrimaryMarks(r)' = 0
    /\ Cardinality(RecordsOutcome) <= 1
    /\ IF ClosesCircuit = {}
       THEN TotalOutcomes' = TotalOutcomes + Cardinality(RecordsOutcome)
       ELSE \A r \in ClosesCircuit :
               /\ HealthTotal(KeyOf(r))' = 0 /\ ~circuitOpen'[KeyOf(r)]
               /\ \A k \in Keys \ {KeyOf(r)} : counts'[k] = counts[k]
    /\ \A r \in Requests :
          (SignalFires(r) /\ pc[r] = "done")
          => counts' = counts /\ \A x \in Kinds : Marked(r, x)' = Marked(r, x)
    /\ \A r \in Requests :
          (SignalFires(r) /\ pc[r] = "running" /\ ~res[r].finish /\ ~res[r].close
              /\ ~config.commandStatusResolver)
          => pc'[r] = "done" /\ Marked(r, "SUCCESS")' = 1

C22_OneOutcomePerRequest == [][C22_Step]_vars

\* C22 witness: two requests to 'other' were in flight together; one timed
\* out and got its 'finish' and 'close' afterwards, the other is recorded
\* SUCCESS; the counters hold two outcomes.
C22_Witness ==
    \E r, q \in Requests :
        /\ r # q /\ command[r] = "other" /\ command[q] = "other"
        /\ pc[r] = "done" /\ pc[q] = "done"
        /\ Marked(r, "TIMEOUT") = 1 /\ res[r].finish /\ res[r].close
        /\ Marked(q, "SUCCESS") = 1
        /\ counts["other"]["TIMEOUT"] = 1 /\ counts["other"]["SUCCESS"] = 1
        /\ TotalOutcomes = 2

\* The executor's promise of request r is settled by the executor in this
\* step (by the lifecycle handler or the status resolver it forwards).
ExecutorSettles(r) ==
    \E i \in 1..Len(NewEvents(r)) :
        /\ NewEvents(r)[i].ev \in {"resolve", "reject"}
        /\ NewEvents(r)[i].by \in {"handleResponseStatus", "commandStatusResolver"}

\* A lifecycle signal has fired and the status resolver, if any, has settled.
LifecycleComplete(r) ==
    /\ res[r].finish \/ res[r].close
    /\ config.commandStatusResolver => status[r] \in {"resolved", "rejected"}

C23_Recorded(r) == pc[r] = "done" /\ PrimaryMarks(r) = 1

\* C23: default executor: a running request always gets its outcome
\* recorded; it is recorded at the latest when 'finish' or 'close' has fired
\* and the status resolver (if configured) has settled; and a request whose
\* executor's promise has not been settled by then leaves the running state
\* only through the command's timeout: recorded TIMEOUT, handed to the
\* fallback, neither SUCCESS nor FAILURE.
C23_Step(r) ==
    /\ (pc'[r] # "gone" /\ LifecycleComplete(r)') => pc'[r] # "running"
    /\ (pc[r] = "running" /\ pc'[r] # "running" /\ ~ExecutorSettles(r))
          => /\ Marked(r, "TIMEOUT")' = 1 /\ Has(hist'[r], "fallback")
             /\ Marked(r, "SUCCESS")' = 0 /\ Marked(r, "FAILURE")' = 0
    /\ (pc[r] = "running" /\ ExecutorSettles(r))
          => Marked(r, "TIMEOUT")' = 0
             /\ Marked(r, "SUCCESS")' + Marked(r, "FAILURE")' = 1

C23_OutcomeEventuallyRecorded ==
    /\ \A r \in Requests : (pc[r] = "running") ~> C23_Recorded(r)
    /\ [][\A r \in Requests : C23_Step(r)]_vars

\* C23 witness: the handler never ended the response and nothing fired on
\* it; the request is recorded TIMEOUT and went through the fallback.
C23_Witness ==
    \E r \in Requests :
        /\ DefaultDeployment /\ pc[r] = "done"
        /\ ~res[r].finished /\ ~res[r].finish /\ ~res[r].close
        /\ Marked(r, "TIMEOUT") = 1 /\ Has(hist[r], "fallback")
        /\ Marked(r, "SUCCESS") = 0 /\ Marked(r, "FAILURE") = 0

\* C24: requests in flight together: the merge of a request and its call of
\* execute() are one step (a step that writes a configuration is the
\* hystrix() call of exactly one request and writes the configuration of that
\* request's command only), and whatever other requests merged meanwhile,
\* when the deferred execution of a request starts, the configuration of its
\* command is the default layer overlaid with that command's own override.
C24_Step ==
    /\ liveConfig' # liveConfig
          => \E r \in Requests :
                /\ Merges(r)
                /\ \A q \in Requests \ {r} : pc'[q] = pc[q]
                /\ \A B \in Keys \ {command'[r]} : liveConfig'[B] = liveConfig[B]
    /\ \A r \in Requests :
          Merges(r) => liveConfig'[command'[r]] = OwnConfig(command'[r])
    /\ \A r \in Requests :
          Executes(r)
          => /\ liveConfig[command[r]] = OwnConfig(command[r])
             /\ liveConfig' = liveConfig

C24_MergeThenExecute == [][C24_Step]_vars

\* C24 witness: a request to 'other' merged and is waiting for its deferred
\* execution; a later request, to 'home', merged after it and is already
\* running; each command holds its own configuration.
C24_Witness ==
    \E r, q \in Requests :
        /\ r < q /\ pc[r] = "deferred" /\ pc[q] = "running"
        /\ command[r] = "other" /\ command[q] = "home"
        /\ liveConfig["other"][VolumeKey] = 1
        /\ liveConfig["home"][VolumeKey] = circuitBreakerRequestVolumeThreshold

\* The executor's promise of request r is rejected in this step.
ExecutorRejects(r) ==
    /\ pc[r] = "running"
    /\ \E i \in 1..Len(NewEvents(r)) :
          /\ NewEvents(r)[i].ev = "reject"
          /\ NewEvents(r)[i].by \in {"handleResponseStatus", "commandStatusResolver",
                                     "runCommand"}

\* C25: the circuit of a command opens only in the execute() of a request to
\* it, and only when at least as many requests as its configured volume
\* threshold are recorded for it; a command left at the breaker's default
\* threshold is never short-circuited: each request to it is executed, and
\* each one whose executor rejects is recorded FAILURE (FAILURE + 1,
\* SHORT_CIRCUITED = 0).
C25_Step ==
    /\ \A k \in Commands :
          (~circuitOpen[k] /\ circuitOpen'[k])
          => /\ \E r \in Requests : Executes(r) /\ command[r] = k
             /\ HealthTotal(k) >= ConfiguredVolume(k)
    /\ \A r \in Requests :
          LET k == command[r] IN
          (k \in Commands /\ ConfiguredVolume(k) = circuitBreakerRequestVolumeThreshold)
          => /\ Executes(r)
                  => /\ pc'[r] = "running" /\ Has(hist'[r], "run")
                     /\ ~circuitOpen'[k]
             /\ ExecutorRejects(r)
                  => /\ counts'[k]["FAILURE"] = counts[k]["FAILURE"] + 1
                     /\ Marked(r, "FAILURE")' = 1
             /\ counts'[k]["SHORT_CIRCUITED"] = 0

C25_NoTripBelowVolume == [][C25_Step]_vars

\* C25 witness: the second of two consecutive failing requests to one command
\* at the default threshold: executed and recorded FAILURE like the one before
\* it (FAILURE = 2), nothing short-circuited, circuit closed.
C25_Witness ==
    \E q \in Requests :
        /\ pc[q] = "done" /\ command[q] \in Commands
        /\ \A r \in Requests : r < q => pc[r] = "gone"
        /\ ConfiguredVolume(command[q]) = circuitBreakerRequestVolumeThreshold
        /\ Has(hist[q], "run") /\ Marked(q, "FAILURE") = 1
        /\ counts[command[q]]["FAILURE"] = 2
        /\ counts[command[q]]["SUCCESS"] = 0
        /\ counts[command[q]]["SHORT_CIRCUITED"] = 0
        /\ ~circuitOpen[command[q]]

\* The executor a deployment is to run: the factory's, if a factory is
\* configured and returns one, else config.runCommand, else the default.
ChosenExecutor ==
    CASE config.commandExecutorFactory = "returnsExecutor" -> "factoryExecutor"
      [] config.runCommand = "custom" -> "runCommand"
      [] OTHER -> "defaultRunCommand"

\* What the default executor and the status resolver leave behind for r.
DefaultExecutorTraces(r) ==
    \/ status[r] # "none" \/ latch[r]
    \/ \E i \in 1..Len(hist[r]) :
          \/ hist[r][i].by \in {"defaultRunCommand", "handleResponseStatus",
                                "commandStatusResolver"}
          \/ hist[r][i].ev = "status"

C26_Chosen ==
    /\ factoryCalls = IF config.commandExecutorFactory = "absent" THEN 0 ELSE 1
    /\ \A r \in Requests :
          /\ \A i \in 1..Len(hist[r]) :
                hist[r][i].ev = "run" => hist[r][i].by = ChosenExecutor
          /\ ChosenExecutor # "defaultRunCommand" => ~DefaultExecutorTraces(r)

ExecutionRejects(r) ==
    \E i \in 1..Len(NewEvents(r)) :
        /\ NewEvents(r)[i].ev = "reject"
        /\ NewEvents(r)[i].by \in {"defaultFallback", "customFallback"}
AfterRejection(r) ==
    LET new == NewEvents(r)
        i == CHOOSE j \in 1..Len(new) :
                 /\ new[j].ev = "reject"
                 /\ new[j].by \in {"defaultFallback", "customFallback"}
    IN SubSeq(new, i + 1, Len(new))

\* C27: whatever failed (the status resolver or a custom executor rejected,
\* the command timed out, the circuit was open), when the fallback rejects
\* and with it the command's execution, the bridge swallows the rejection:
\* the command is over, nothing but the fallback's own outcome is recorded
\* after it, the continuation is not called, nothing is thrown, and the other
\* requests and the other commands are left as they are; only a command
\* resolver that throws makes hystrix() throw.
C27_Step(r) ==
    /\ ExecutionRejects(r)
          => /\ pc'[r] = "done"
             /\ \A i \in 1..Len(AfterRejection(r)) :
                   /\ AfterRejection(r)[i].ev = "mark"
                   /\ AfterRejection(r)[i].arg = "FALLBACK_FAILURE"
             /\ \A q \in Requests \ {r} :
                   /\ pc'[q] = pc[q] /\ hist'[q] = hist[q] /\ res'[q] = res[q]
                   /\ status'[q] = status[q]
             /\ \A k \in Keys \ {KeyOf(r)} :
                   counts'[k] = counts[k] /\ circuitOpen'[k] = circuitOpen[k]
             /\ liveConfig' = liveConfig
    /\ (pc[r] # "threw" /\ pc'[r] = "threw")
          => config.commandResolver = "throws" /\ pc[r] = "idle"
    /\ \A i \in 1..Len(NewEvents(r)) : NewEvents(r)[i].by # "skip"

C27_RejectionSwallowed == [][\A r \in Requests : C27_Step(r)]_vars

\* C27 witness: the fallback of a request rejected (its response was
\* finished when its executor's promise rejected); the request is over and
\* the continuation was called once, by the executor; the same had happened
\* to the request before it, which did not keep this one from being handled.
C27_Witness ==
    \E r \in Requests :
        /\ pc[r] = "done" /\ Has(hist[r], "run")
        /\ HasBy(hist[r], "reject", "defaultFallback")
        /\ Last(hist[r]).arg = "FALLBACK_FAILURE"
        /\ Cardinality(NextCalls(r)) = 1
        /\ \E q \in Requests : q < r /\ pc[q] = "gone"
        /\ counts[KeyOf(r)]["FALLBACK_FAILURE"] = 2

\* C28: default executor: when the status resolver's promise rejects while
\* the command is running, the executor's promise rejects with that very
\* reason, the fallback (default or custom) is called with it, and, the
\* response being finished, the default fallback rejects with it.
C28_Step(r) ==
    LET new == NewEvents(r) IN
    (DefaultDeployment /\ pc[r] = "running" /\ StatusSettles(r)
        /\ status'[r] = "rejected")
    => \E e \in Reasons :
          /\ Len(new) >= 3
          /\ new[1] = Ev("reject", "commandStatusResolver", e)
          /\ new[2] = Ev("mark", KeyOf(r), "FAILURE")
          /\ new[3].ev = "fallback" /\ new[3].arg = e
          /\ \A i \in 1..Len(new) : new[i].ev = "fallback" => i = 3
          /\ (config.fallback = "default" /\ res[r].finished)
                => /\ Len(new) >= 4
                   /\ new[4] = Ev("reject", "defaultFallback", e)
                   /\ ~Has(new, "next")

C28_ReasonForwardedVerbatim == [][\A r \in Requests : C28_Step(r)]_vars

\* C28 witness: the status resolver rejected with 'Bad path' after the
\* response was finished; the default fallback was called with 'Bad path' and
\* rejected with it.
C28_Witness ==
    \E r \in Requests :
        /\ DefaultDeployment /\ config.fallback = "default"
        /\ pc[r] = "done" /\ res[r].finished /\ status[r] = "rejected"
        /\ \E i \in 1..Len(hist[r]) :
              /\ hist[r][i] = Ev("reject", "commandStatusResolver", "Bad path")
              /\ i + 3 <= Len(hist[r])
              /\ hist[r][i + 2].ev = "fallback" /\ hist[r][i + 2].arg = "Bad path"
              /\ hist[r][i + 3] = Ev("reject", "defaultFallback", "Bad path")

====
